---- MODULE Spec2Model ----
(***************************************************************************)
(* Model of physicell_config.modules.cell_rules.CellRulesModule and        *)
(* physicell_config.modules.physiboss.PhysiBoSSModule.                     *)
(*                                                                         *)
(* Python strings are sequences of tokens (a run of whitespace, a word, a  *)
(* file extension, or a numeric literal), so that str.strip(), str(),      *)
(* float(), int(), str.lower() and os.path.splitext() are computed and not *)
(* assumed to be the identity.  Numbers carry their Python type and their  *)
(* value in tenths, so that 1 and 1.0 are different objects of equal value.*)
(***************************************************************************)
EXTENDS Integers, Sequences, FiniteSets, TLC

VARIABLES
    rules,      \* CellRulesModule.rules: list of rule dicts
    rulesets,   \* CellRulesModule.rulesets: insertion-ordered dict name -> record
    file,       \* content of the rules CSV path on disk (NoFile when it does not exist)
    parent,     \* children of the XML parent element handed to add_to_xml
    enabled,    \* PhysiBoSSModule.enabled
    settings,   \* PhysiBoSSModule.physiboss_settings ({} is <<>>)
    caller,     \* the dict objects the caller holds and may pass to enable_physiboss
    last        \* the most recent call: its name, its arguments and how it ended

vars == <<rules, rulesets, file, parent, enabled, settings, caller, last>>
bossVars == <<enabled, settings, caller>>

(***************************************************************************)
(* Bounds of the model.                                                    *)
(***************************************************************************)
MaxRules == 2
MaxRows == 2
MaxElems == 3
MaxSets == 2
MaxFragments == 1
MaxChildren == 2

(***************************************************************************)
(* Python strings and numbers.                                             *)
(***************************************************************************)
SP == [k |-> "sp", w |-> " ", n |-> 0]
W(x) == [k |-> "word", w |-> x, n |-> 0]
Ext(x) == [k |-> "ext", w |-> x, n |-> 0]
IntLit(q) == [k |-> "int", w |-> "", n |-> q]
DecLit(q) == [k |-> "dec", w |-> "", n |-> q]

S(x) == <<W(x)>>

PyInt(i) == [t |-> "int", tenths |-> 10 * i]
PyFloat(q) == [t |-> "float", tenths |-> q]

\* Python ==  on numbers compares by value: 1 == 1.0
NumEq(a, b) == a.tenths = b.tenths

RECURSIVE LStrip(_)
LStrip(s) == IF s # <<>> /\ Head(s).k = "sp" THEN LStrip(Tail(s)) ELSE s

RECURSIVE RStrip(_)
RStrip(s) ==
    IF s # <<>> /\ s[Len(s)].k = "sp" THEN RStrip(SubSeq(s, 1, Len(s) - 1)) ELSE s

\* str.strip()
Strip(s) == RStrip(LStrip(s))

\* str(x) of an int or a float: "1" and "1.0", "0.5"
PyStr(v) == IF v.t = "int" THEN <<IntLit(v.tenths)>> ELSE <<DecLit(v.tenths)>>

\* float(s): surrounding whitespace is ignored; integer and decimal literals parse
CanFloat(s) == Len(Strip(s)) = 1 /\ Strip(s)[1].k \in {"int", "dec"}
ToFloat(s) == PyFloat(Strip(s)[1].n)

\* int(s): surrounding whitespace is ignored; only integer literals parse
CanInt(s) == Len(Strip(s)) = 1 /\ Strip(s)[1].k = "int"
ToInt(s) == [t |-> "int", tenths |-> Strip(s)[1].n]

\* str(True), str(False)
StrBool(b) == IF b THEN S("True") ELSE S("False")

LowerWord(w) ==
    CASE w = "True" -> "true"
      [] w = "TRUE" -> "true"
      [] w = "False" -> "false"
      [] w = "FALSE" -> "false"
      [] w = "Increases" -> "increases"
      [] OTHER -> w

\* str.lower()
Lower(s) == [i \in 1..Len(s) |-> [s[i] EXCEPT !.w = LowerWord(s[i].w)]]

\* os.path.splitext(filename)[0]: the name without its last extension; a name
\* that is only an extension (".csv") keeps it
SplitExtBase(s) ==
    IF Len(s) >= 2 /\ s[Len(s)].k = "ext" THEN SubSeq(s, 1, Len(s) - 1) ELSE s

\* f"{base_name}_{counter}"
Suffix(q) == [k |-> "suffix", w |-> "_", n |-> q]
Suffixed(base, counter) == Append(base, Suffix(counter))

(***************************************************************************)
(* Rules.                                                                  *)
(***************************************************************************)
NoFile == [exists |-> FALSE, rows |-> <<>>]
OnDisk(rows) == [exists |-> TRUE, rows |-> rows]

NoArgs == <<>>
Call(op, args, outcome) == [op |-> op, args |-> args, outcome |-> outcome]
Returned(op) == Call(op, NoArgs, "ok")
Raised(op, exc) == Call(op, NoArgs, exc)

MkRule(ct, sg, d, b, sv, hm, hp, atd) ==
    [cell_type |-> ct, signal |-> sg, direction |-> d, behavior |-> b,
     saturation_value |-> sv, half_max |-> hm, hill_power |-> hp,
     apply_to_dead |-> atd]

\* mutant: the direction is compared without regard to case
DirectionOkAnyCase(d) == Lower(d) \in {S("increases"), S("decreases")}

\* direction not in ('increases', 'decreases')
DirectionOk(d) == d \in {S("increases"), S("decreases")}

\* apply_to_dead not in (0, 1): tuple membership compares by value
ApplyToDeadOk(atd) == \E c \in {PyInt(0), PyInt(1)} : NumEq(atd, c)

AddRuleResult(rs, ct, sg, d, b, sv, hm, hp, atd) ==
    IF ~DirectionOk(d) THEN [rules |-> rs, outcome |-> "ValueError"]
    ELSE IF ~ApplyToDeadOk(atd) THEN [rules |-> rs, outcome |-> "ValueError"]
    ELSE [rules |-> Append(rs, MkRule(ct, sg, d, b, sv, hm, hp, atd)),
          outcome |-> "ok"]

add_rule(ct, sg, d, b, sv, hm, hp, atd) ==
    LET res == AddRuleResult(rules, ct, sg, d, b, sv, hm, hp, atd) IN
    /\ res.outcome = "ok" => Len(rules) < MaxRules
    /\ rules' = res.rules
    /\ last' = Call("add_rule", MkRule(ct, sg, d, b, sv, hm, hp, atd), res.outcome)
    /\ UNCHANGED <<rulesets, file, parent, bossVars>>

\* not row or all(c.strip() == '' for c in row)
IsBlankRow(row) == \A i \in 1..Len(row) : Strip(row[i]) = <<>>

RowParses(row) ==
    /\ CanFloat(row[5])
    /\ CanFloat(row[6])
    /\ CanFloat(row[7])
    /\ CanInt(row[8])

RowRule(row) ==
    MkRule(Strip(row[1]), Strip(row[2]), Strip(row[3]), Strip(row[4]),
           ToFloat(row[5]), ToFloat(row[6]), ToFloat(row[7]), ToInt(row[8]))

\* the for loop over csv.reader: rules are appended row by row until a row raises
RECURSIVE LoadLoop(_, _)
LoadLoop(acc, rows) ==
    IF rows = <<>> THEN [rules |-> acc, outcome |-> "ok"]
    ELSE LET row == Head(rows) IN
         IF IsBlankRow(row) THEN LoadLoop(acc, Tail(rows))
         ELSE IF Len(row) < 8 THEN [rules |-> acc, outcome |-> "ValueError"]
         ELSE IF ~RowParses(row) THEN [rules |-> acc, outcome |-> "ValueError"]
         ELSE LoadLoop(Append(acc, RowRule(row)), Tail(rows))

\* mutant: the import starts from an empty list instead of the rules held
LoadResultReplace(rs, f) ==
    IF ~f.exists THEN [rules |-> rs, outcome |-> "FileNotFoundError"]
    ELSE LoadLoop(<<>>, f.rows)

LoadResult(rs, f) ==
    IF ~f.exists THEN [rules |-> rs, outcome |-> "FileNotFoundError"]
    ELSE LoadLoop(rs, f.rows)

load_rules_from_csv ==
    LET res == LoadResult(rules, file) IN
    /\ Len(res.rules) <= MaxRules
    /\ rules' = res.rules
    /\ last' = Call("load_rules_from_csv", NoArgs, res.outcome)
    /\ UNCHANGED <<rulesets, file, parent, bossVars>>

\* writer.writerow([...]): csv writes str(field) and reads back the same text
SaveRow(r) ==
    <<r.cell_type, r.signal, r.direction, r.behavior,
      PyStr(r.saturation_value), PyStr(r.half_max), PyStr(r.hill_power),
      PyStr(r.apply_to_dead)>>

SaveRows(rs) == [i \in 1..Len(rs) |-> SaveRow(rs[i])]

save_rules_to_csv ==
    /\ IF rules = <<>>
       THEN /\ file' = file
            /\ last' = Raised("save_rules_to_csv", "ValueError")
       ELSE /\ file' = OnDisk(SaveRows(rules))
            /\ last' = Returned("save_rules_to_csv")
    /\ UNCHANGED <<rules, rulesets, parent, bossVars>>

clear_rules ==
    /\ rules' = <<>>
    /\ last' = Returned("clear_rules")
    /\ UNCHANGED <<rulesets, file, parent, bossVars>>

(***************************************************************************)
(* The caller's inputs and the files found on disk.                        *)
(***************************************************************************)
CellTypes == {S("tumor"), <<SP, W("tumor")>>}
Directions == {S("increases"), S("decreases"), S("Increases")}
ApplyToDead == {PyInt(0), PyInt(1), PyInt(2)}
Oxygen == S("oxygen")
Apoptosis == S("apoptosis")
SatValue == PyInt(1)
HalfMax == PyFloat(5)
HillPower == PyFloat(40)

GoodRow == <<S("tumor"), Oxygen, S("increases"), Apoptosis,
             <<DecLit(10)>>, <<DecLit(5)>>, <<IntLit(40)>>, <<IntLit(10)>>>>
PaddedRow == <<<<SP, W("tumor"), SP>>, Oxygen, <<SP, W("decreases")>>, Apoptosis,
               <<SP, DecLit(10)>>, <<DecLit(5)>>, <<IntLit(40)>>, <<IntLit(0), SP>>>>
ShortRow == SubSeq(GoodRow, 1, 6)
WordRow == [GoodRow EXCEPT ![5] = S("high")]
DecDeadRow == [GoodRow EXCEPT ![8] = <<DecLit(10)>>]
OddRow == [GoodRow EXCEPT ![3] = S("sideways"), ![8] = <<IntLit(20)>>]
EmptyRow == <<>>
SpaceRow == <<<<SP>>, <<>>>>

FileRows == {PaddedRow, ShortRow, WordRow, DecDeadRow, OddRow, EmptyRow, SpaceRow}

\* the environment creates the rules file, adds a line to it, or removes it
CreateFile ==
    /\ ~file.exists
    /\ file' = OnDisk(<<>>)
    /\ last' = Returned("env")
    /\ UNCHANGED <<rules, rulesets, parent, bossVars>>

AppendRow(row) ==
    /\ file.exists
    /\ Len(file.rows) < MaxRows
    /\ file' = OnDisk(Append(file.rows, row))
    /\ last' = Returned("env")
    /\ UNCHANGED <<rules, rulesets, parent, bossVars>>

DeleteFile ==
    /\ file.exists
    /\ file' = NoFile
    /\ last' = Returned("env")
    /\ UNCHANGED <<rules, rulesets, parent, bossVars>>

(***************************************************************************)
(* XML elements (xml.etree.ElementTree.Element): a tag, the attributes in  *)
(* the order they were set, an optional text (<<>> is None) and children.  *)
(***************************************************************************)
None == <<>>
Some(x) == <<x>>

Elem(tag, attrib, text, children) ==
    [tag |-> tag, attrib |-> attrib, text |-> text, children |-> children]

\* BaseModule._create_element(parent, tag, text): a new child element, with
\* text str(text) when a text is given; the caller appends it to its parent
CreateElement(tag, text) == Elem(tag, <<>>, text, <<>>)

HasAttr(e, name) == \E i \in 1..Len(e.attrib) : e.attrib[i].name = name

\* Element.set(name, value)
SetAttr(e, name, value) ==
    IF HasAttr(e, name)
    THEN [e EXCEPT !.attrib = [i \in 1..Len(e.attrib) |->
              IF e.attrib[i].name = name
              THEN [name |-> name, value |-> value] ELSE e.attrib[i]]]
    ELSE [e EXCEPT !.attrib = Append(e.attrib, [name |-> name, value |-> value])]

\* Element.get(name, default)
GetAttr(e, name, default) ==
    IF HasAttr(e, name)
    THEN e.attrib[CHOOSE i \in 1..Len(e.attrib) : e.attrib[i].name = name].value
    ELSE default

WithChildren(e, cs) == [e EXCEPT !.children = cs]

RECURSIVE FindAllIn(_, _)
FindAllIn(cs, tag) ==
    IF cs = <<>> THEN <<>>
    ELSE IF Head(cs).tag = tag THEN <<Head(cs)>> \o FindAllIn(Tail(cs), tag)
    ELSE FindAllIn(Tail(cs), tag)

\* Element.findall(tag): the direct children with that tag, in document order
FindAll(e, tag) == FindAllIn(e.children, tag)

\* Element.find(tag): the first such child, or None
Find(e, tag) == LET all == FindAll(e, tag) IN IF all = <<>> THEN None ELSE Some(all[1])

(***************************************************************************)
(* The ruleset registry: a dict, kept as its items in insertion order.     *)
(***************************************************************************)
Keys(reg) == {reg[i].name : i \in 1..Len(reg)}

\* reg[name] = rec
DictSet(reg, name, rec) ==
    IF name \in Keys(reg)
    THEN [i \in 1..Len(reg) |->
             IF reg[i].name = name THEN [name |-> name, rec |-> rec] ELSE reg[i]]
    ELSE Append(reg, [name |-> name, rec |-> rec])

MkRuleset(folder, filename, en, protocol, version, format) ==
    [folder |-> folder, filename |-> filename, enabled |-> en,
     protocol |-> protocol, version |-> version, format |-> format]

CBHG == S("CBHG")
V30 == <<DecLit(30)>>
Csv == S("csv")

add_ruleset(name, folder, filename, en) ==
    /\ rulesets' = DictSet(rulesets, name, MkRuleset(folder, filename, en, CBHG, V30, Csv))
    /\ last' = Returned("add_ruleset")
    /\ UNCHANGED <<rules, file, parent, bossVars>>

clear_rulesets ==
    /\ rulesets' = <<>>
    /\ last' = Returned("clear_rulesets")
    /\ UNCHANGED <<rules, file, parent, bossVars>>

\* one <ruleset> element of a registered record
RulesetElem(rs) ==
    LET e0 == CreateElement("ruleset", None)
        e1 == SetAttr(e0, "protocol", rs.protocol)
        e2 == SetAttr(e1, "version", rs.version)
        e3 == SetAttr(e2, "format", rs.format)
        e4 == SetAttr(e3, "enabled", Lower(StrBool(rs.enabled)))
    IN WithChildren(e4, <<CreateElement("folder", Some(rs.folder)),
                          CreateElement("filename", Some(rs.filename))>>)

\* the default disabled <ruleset> written when nothing is registered
PlaceholderElem ==
    LET e0 == CreateElement("ruleset", None)
        e1 == SetAttr(e0, "protocol", S("CBHG"))
        e2 == SetAttr(e1, "version", <<DecLit(30)>>)
        e3 == SetAttr(e2, "format", S("csv"))
        e4 == SetAttr(e3, "enabled", S("false"))
    IN WithChildren(e4, <<CreateElement("folder", Some(S("./config"))),
                          CreateElement("filename",
                                        Some(<<W("cell_rules"), Ext(".csv")>>))>>)

\* mutant: the placeholder is written in front of the registered rulesets too
CellRulesElemPlaceholder(reg) ==
    LET rulesetsElem ==
            WithChildren(CreateElement("rulesets", None),
                         <<PlaceholderElem>> \o [i \in 1..Len(reg) |-> RulesetElem(reg[i].rec)])
    IN WithChildren(CreateElement("cell_rules", None),
                    <<rulesetsElem, CreateElement("settings", None)>>)

\* the <cell_rules> element add_to_xml builds from a registry
CellRulesElem(reg) ==
    LET rulesetsElem ==
            WithChildren(CreateElement("rulesets", None),
                         IF reg # <<>>
                         THEN [i \in 1..Len(reg) |-> RulesetElem(reg[i].rec)]
                         ELSE <<PlaceholderElem>>)
    IN WithChildren(CreateElement("cell_rules", None),
                    <<rulesetsElem, CreateElement("settings", None)>>)

\* mutant: the new element is put before the children the parent already has
CellRulesAddToXmlFirst(p, reg) == <<CellRulesElem(reg)>> \o p

CellRulesAddToXml(p, reg) == Append(p, CellRulesElem(reg))

cell_rules_add_to_xml ==
    /\ parent' = CellRulesAddToXml(parent, rulesets)
    /\ last' = Returned("cell_rules.add_to_xml")
    /\ UNCHANGED <<rules, rulesets, file, bossVars>>

\* mutant: the suffixed name is not checked again
UniqueNameOnce(reg, base, candidate, counter) ==
    IF candidate \in Keys(reg) THEN Suffixed(base, counter) ELSE candidate

\* while ruleset_name in self.rulesets: ruleset_name = f"{base_name}_{counter}"
RECURSIVE UniqueName(_, _, _, _)
UniqueName(reg, base, candidate, counter) ==
    IF candidate \in Keys(reg)
    THEN UniqueName(reg, base, Suffixed(base, counter), counter + 1)
    ELSE candidate

\* mutant: an empty text is kept instead of defaulted
TextOrEmpty(e, default) == IF e.text # None THEN Strip(e.text[1]) ELSE <<>>

\* folder_elem.text.strip() if folder_elem.text else default
TextOr(e, default) ==
    IF e.text # None /\ e.text[1] # <<>> THEN Strip(e.text[1]) ELSE default

\* both <folder> and <filename> must be present for the element to be registered
RulesetAccepted(e) == Find(e, "folder") # None /\ Find(e, "filename") # None

\* mutant: the enabled attribute is compared with 'True'
LoadRulesetTrue(reg, e) ==
    LET en == GetAttr(e, "enabled", S("false")) = S("True")
    IN IF RulesetAccepted(e)
       THEN LET folder == TextOr(Find(e, "folder")[1], S("./config"))
                filename == TextOr(Find(e, "filename")[1],
                                   <<W("cell_rules"), Ext(".csv")>>)
                base == SplitExtBase(filename)
            IN DictSet(reg, UniqueName(reg, base, base, 1),
                       MkRuleset(folder, filename, en, GetAttr(e, "protocol", S("CBHG")),
                                 GetAttr(e, "version", <<DecLit(30)>>),
                                 GetAttr(e, "format", S("csv"))))
       ELSE reg

\* the body of the loop over <ruleset> elements
LoadRuleset(reg, e) ==
    LET protocol == GetAttr(e, "protocol", S("CBHG"))
        version == GetAttr(e, "version", <<DecLit(30)>>)
        format == GetAttr(e, "format", S("csv"))
        en == Lower(GetAttr(e, "enabled", S("false"))) = S("true")
    IN IF RulesetAccepted(e)
       THEN LET folder == TextOr(Find(e, "folder")[1], S("./config"))
                filename == TextOr(Find(e, "filename")[1],
                                   <<W("cell_rules"), Ext(".csv")>>)
                base == SplitExtBase(filename)
                name == UniqueName(reg, base, base, 1)
            IN DictSet(reg, name,
                       MkRuleset(folder, filename, en, protocol, version, format))
       ELSE reg

RECURSIVE LoadRulesets(_, _)
LoadRulesets(reg, es) ==
    IF es = <<>> THEN reg ELSE LoadRulesets(LoadRuleset(reg, Head(es)), Tail(es))

\* mutant: the registry is not cleared before the elements are read
LoadFromXmlKeep(reg, x) ==
    IF x = None THEN reg
    ELSE LET rulesetsElem == Find(x[1], "rulesets") IN
         IF rulesetsElem # None
         THEN LoadRulesets(reg, FindAll(rulesetsElem[1], "ruleset"))
         ELSE reg

\* load_from_xml(xml_element): the registry afterwards
LoadFromXml(reg, x) ==
    IF x = None THEN reg
    ELSE LET rulesetsElem == Find(x[1], "rulesets") IN
         IF rulesetsElem # None
         THEN LoadRulesets(<<>>, FindAll(rulesetsElem[1], "ruleset"))
         ELSE <<>>

load_from_xml(x) ==
    /\ rulesets' = LoadFromXml(rulesets, x)
    /\ last' = Call("load_from_xml", x, "ok")
    /\ UNCHANGED <<rules, file, parent, bossVars>>

(***************************************************************************)
(* PhysiBoSSModule.  A dict is its items in insertion order.  The three    *)
(* maps of the settings are references: to the dict object the caller      *)
(* passed to enable_physiboss, or to a dict the module created itself.     *)
(***************************************************************************)
Own(d) == [obj |-> "own", val |-> d]
CallerObj == [obj |-> "caller", val |-> <<>>]

MapKinds == {"initial_values", "mutations", "parameters"}

\* the dict a reference of the settings points to
DerefIn(c, kind, ref) == IF ref.obj = "caller" THEN c[kind] ELSE ref.val
Deref(kind, ref) == DerefIn(caller, kind, ref)

DictHas(d, name) == \E i \in 1..Len(d) : d[i].name = name
DictGet(d, name) == d[CHOOSE i \in 1..Len(d) : d[i].name = name].rec

\* `arg or {}`: None and an empty dict are falsy and give a new empty dict
OrEmpty(kind, arg) ==
    IF arg = None THEN Own(<<>>)
    ELSE IF caller[kind] = <<>> THEN Own(<<>>)
    ELSE CallerObj

DefaultTimeStep == PyFloat(120)
DefaultScaling == PyFloat(100)
DefaultStartTime == PyFloat(0)

\* mutant: a re-enable keeps the time step and scaling set before
EnableSettingsKeep(model_file, iv, mut, par) ==
    [model_file |-> model_file,
     initial_values |-> OrEmpty("initial_values", iv),
     mutations |-> OrEmpty("mutations", mut),
     parameters |-> OrEmpty("parameters", par),
     time_step |-> IF settings = <<>> THEN DefaultTimeStep ELSE settings[1].time_step,
     scaling |-> IF settings = <<>> THEN DefaultScaling ELSE settings[1].scaling,
     start_time |-> DefaultStartTime]

EnableSettings(model_file, iv, mut, par) ==
    [model_file |-> model_file,
     initial_values |-> OrEmpty("initial_values", iv),
     mutations |-> OrEmpty("mutations", mut),
     parameters |-> OrEmpty("parameters", par),
     time_step |-> DefaultTimeStep,
     scaling |-> DefaultScaling,
     start_time |-> DefaultStartTime]

enable_physiboss(model_file, iv, mut, par) ==
    /\ enabled' = TRUE
    /\ settings' = <<EnableSettings(model_file, iv, mut, par)>>
    /\ last' = Call("enable_physiboss",
                    [model_file |-> model_file, initial_values |-> iv,
                     mutations |-> mut, parameters |-> par], "ok")
    /\ UNCHANGED <<rules, rulesets, file, parent, caller>>

\* BaseModule._validate_positive_number(value, name)
PositiveNumber(v) == v.tenths > 0

\* mutant: the call returns silently while PhysiBoSS is not enabled
SetNumberSilent(op, key, v) ==
    /\ IF ~enabled
       THEN /\ last' = Call(op, v, "ok")
            /\ UNCHANGED settings
       ELSE IF ~PositiveNumber(v)
       THEN /\ last' = Call(op, v, "ValueError")
            /\ UNCHANGED settings
       ELSE /\ last' = Call(op, v, "ok")
            /\ settings' = <<[settings[1] EXCEPT ![key] = v]>>
    /\ UNCHANGED <<rules, rulesets, file, parent, enabled, caller>>

\* set_time_step and set_scaling: the same three steps on one key
SetNumber(op, key, v) ==
    /\ IF ~enabled
       THEN /\ last' = Call(op, v, "ValueError")
            /\ UNCHANGED settings
       ELSE IF ~PositiveNumber(v)
       THEN /\ last' = Call(op, v, "ValueError")
            /\ UNCHANGED settings
       ELSE /\ last' = Call(op, v, "ok")
            /\ settings' = <<[settings[1] EXCEPT ![key] = v]>>
    /\ UNCHANGED <<rules, rulesets, file, parent, enabled, caller>>

set_time_step(v) == SetNumber("set_time_step", "time_step", v)

set_scaling(v) == SetNumber("set_scaling", "scaling", v)

\* the dict self.physiboss_settings[kind] refers to ({} while nothing is set)
CurrentMap(kind) == IF settings = <<>> THEN <<>> ELSE Deref(kind, settings[1][kind])

\* self.physiboss_settings[kind][...] = ...: the dict is updated in place, so
\* the write goes to the object the reference points to
WriteMap(op, args, kind, updated) ==
    /\ IF ~enabled
       THEN /\ last' = Call(op, args, "ValueError")
            /\ UNCHANGED <<settings, caller>>
       ELSE LET ref == settings[1][kind] IN
            /\ last' = Call(op, args, "ok")
            /\ IF ref.obj = "caller"
               THEN /\ caller' = [caller EXCEPT ![kind] = updated]
                    /\ UNCHANGED settings
               ELSE /\ settings' = <<[settings[1] EXCEPT ![kind] = Own(updated)]>>
                    /\ UNCHANGED caller
    /\ UNCHANGED <<rules, rulesets, file, parent, enabled>>

add_initial_value(node, value) ==
    WriteMap("add_initial_value", [node |-> node, value |-> value],
             "initial_values", DictSet(CurrentMap("initial_values"), node, value))

\* if cell_line not in mutations: mutations[cell_line] = {}
\* mutations[cell_line][node] = value
SetMutation(d, cell_line, node, value) ==
    LET d1 == IF ~DictHas(d, cell_line) THEN DictSet(d, cell_line, <<>>) ELSE d
    IN DictSet(d1, cell_line, DictSet(DictGet(d1, cell_line), node, value))

add_mutation(cell_line, node, value) ==
    WriteMap("add_mutation", [cell_line |-> cell_line, node |-> node, value |-> value],
             "mutations", SetMutation(CurrentMap("mutations"), cell_line, node, value))

add_parameter(name, value) ==
    WriteMap("add_parameter", [name |-> name, value |-> value],
             "parameters", DictSet(CurrentMap("parameters"), name, value))

\* str(value).lower() of a bool
BoolText(b) == Lower(StrBool(b))

\* mutant: the text of the node elements is never set
NodeElemsNoText(tag, d) ==
    [i \in 1..Len(d) |-> SetAttr(CreateElement(tag, None), "node", d[i].name)]

\* one element per item of a node -> bool dict, its text set after creation
NodeElems(tag, d) ==
    [i \in 1..Len(d) |->
       [SetAttr(CreateElement(tag, None), "node", d[i].name)
          EXCEPT !.text = Some(BoolText(d[i].rec))]]

PhysibossSettingsElem(st) ==
    WithChildren(CreateElement("physiboss_settings", None),
       <<CreateElement("physiboss_bnd_file", Some(st.model_file)),
         SetAttr(CreateElement("physiboss_time_step", Some(PyStr(st.time_step))),
                 "units", S("min")),
         CreateElement("physiboss_scaling", Some(PyStr(st.scaling))),
         SetAttr(CreateElement("physiboss_start_time", Some(PyStr(st.start_time))),
                 "units", S("min"))>>)

InitialValuesElem(d) ==
    WithChildren(CreateElement("physiboss_initial_values", None),
                 NodeElems("physiboss_initial_value", d))

MutationsElem(d) ==
    WithChildren(CreateElement("physiboss_mutations", None),
       [i \in 1..Len(d) |->
          WithChildren(SetAttr(CreateElement("physiboss_mutation", None),
                               "cell_line", d[i].name),
                       NodeElems("physiboss_mutation_value", d[i].rec))])

ParametersElem(d) ==
    WithChildren(CreateElement("physiboss_parameters", None),
       [i \in 1..Len(d) |->
          [SetAttr(CreateElement("physiboss_parameter", None), "name", d[i].name)
             EXCEPT !.text = Some(PyStr(d[i].rec))]])

\* mutant: the three blocks are written even when their dict is empty
PhysibossElemAllBlocks(st, iv, mut, par) ==
    WithChildren(SetAttr(CreateElement("physiboss", None), "enabled", S("true")),
       <<PhysibossSettingsElem(st), InitialValuesElem(iv), MutationsElem(mut),
         ParametersElem(par)>>)

\* the <physiboss> element of add_to_xml for settings st whose three dicts
\* hold iv, mut and par; an empty dict is falsy and its block is left out
PhysibossElem(st, iv, mut, par) ==
    WithChildren(SetAttr(CreateElement("physiboss", None), "enabled", S("true")),
       <<PhysibossSettingsElem(st)>>
       \o (IF iv # <<>> THEN <<InitialValuesElem(iv)>> ELSE <<>>)
       \o (IF mut # <<>> THEN <<MutationsElem(mut)>> ELSE <<>>)
       \o (IF par # <<>> THEN <<ParametersElem(par)>> ELSE <<>>))

PhysibossAddToXml(p) ==
    IF ~enabled THEN p
    ELSE Append(p, PhysibossElem(settings[1], CurrentMap("initial_values"),
                                 CurrentMap("mutations"), CurrentMap("parameters")))

physiboss_add_to_xml ==
    /\ parent' = PhysibossAddToXml(parent)
    /\ last' = Returned("physiboss.add_to_xml")
    /\ UNCHANGED <<rules, rulesets, file, enabled, settings, caller>>

(***************************************************************************)
(* Accessors.  list.copy() and dict.copy() give a new container that holds *)
(* the very objects the store holds: item i of get_rules() is the dict     *)
(* self.rules[i], get_rulesets()[name] is the dict self.rulesets[name],    *)
(* and the three dicts in get_settings() are the dicts of the settings.    *)
(* The steps below are the caller's, on a value an accessor just returned. *)
(***************************************************************************)
\* get_settings(): {} while not enabled, else a copy of the settings
GetSettings == IF enabled THEN settings ELSE <<>>

\* ret = get_rules(); ret[i][field] = value
held_rule_set_field(i, field, value) ==
    /\ i \in 1..Len(rules)
    /\ rules' = [rules EXCEPT ![i][field] = value]
    /\ last' = Call("caller.mutate", [via |-> "get_rules", what |-> "record"], "ok")
    /\ UNCHANGED <<rulesets, file, parent, bossVars>>

\* ret = get_rules(); ret.clear() or ret.append(...): ret is a new list
held_rules_edit_list ==
    /\ last' = Call("caller.mutate", [via |-> "get_rules", what |-> "container"], "ok")
    /\ UNCHANGED <<rules, rulesets, file, parent, bossVars>>

\* ret = get_rulesets(); ret[name][field] = value
held_ruleset_set_field(name, field, value) ==
    /\ name \in Keys(rulesets)
    /\ rulesets' = [i \in 1..Len(rulesets) |->
                       IF rulesets[i].name = name
                       THEN [rulesets[i] EXCEPT !.rec[field] = value] ELSE rulesets[i]]
    /\ last' = Call("caller.mutate", [via |-> "get_rulesets", what |-> "record"], "ok")
    /\ UNCHANGED <<rules, file, parent, bossVars>>

\* ret = get_rulesets(); ret.clear() or ret[new] = ...: ret is a new dict
held_rulesets_edit_dict ==
    /\ last' = Call("caller.mutate", [via |-> "get_rulesets", what |-> "container"], "ok")
    /\ UNCHANGED <<rules, rulesets, file, parent, bossVars>>

\* ret = get_settings(); ret['initial_values'][node] = value
held_settings_write_map(node, value) ==
    /\ GetSettings # <<>>
    /\ WriteMap("caller.mutate", [via |-> "get_settings", what |-> "record"],
                "initial_values", DictSet(CurrentMap("initial_values"), node, value))

\* ret = get_settings(); ret['time_step'] = ... or ret.clear(): ret is a new dict
held_settings_edit_dict ==
    /\ last' = Call("caller.mutate", [via |-> "get_settings", what |-> "container"], "ok")
    /\ UNCHANGED <<rules, rulesets, file, parent, bossVars>>

\* the caller changes a dict of its own: d[node] = value
caller_writes(node, value) ==
    /\ caller' = [caller EXCEPT
                    !.initial_values = DictSet(caller.initial_values, node, value)]
    /\ last' = Call("caller.write", [node |-> node, value |-> value], "ok")
    /\ UNCHANGED <<rules, rulesets, file, parent, enabled, settings>>

\* deserialize of the boolean-network section (spec section 4.3 and section
\* 8): the text of an element, or the empty string
ElemText(e) == IF e.text = None THEN <<>> ELSE e.text[1]

\* the children of the block with that tag, none when the block is absent
BlockChildren(e, tag) ==
    LET b == Find(e, tag) IN IF b = None THEN <<>> ELSE b[1].children

\* node -> bool items read from elements carrying a node attribute
ParseNodes(es) ==
    [i \in 1..Len(es) |->
       [name |-> GetAttr(es[i], "node", <<>>), rec |-> (ElemText(es[i]) = S("true"))]]

ParseNumber(e, default) == IF CanFloat(ElemText(e)) THEN ToFloat(ElemText(e)) ELSE default

ParseSettings(e) ==
    LET st == BlockChildren(e, "physiboss_settings")
        field(tag) == FindAllIn(st, tag)
        muts == BlockChildren(e, "physiboss_mutations")
        pars == BlockChildren(e, "physiboss_parameters")
    IN [model_file |-> IF field("physiboss_bnd_file") = <<>>
                       THEN <<W("boolean_model"), Ext(".bnd")>>
                       ELSE ElemText(field("physiboss_bnd_file")[1]),
        initial_values |->
           Own(ParseNodes(BlockChildren(e, "physiboss_initial_values"))),
        mutations |->
           Own([i \in 1..Len(muts) |->
                  [name |-> GetAttr(muts[i], "cell_line", <<>>),
                   rec |-> ParseNodes(muts[i].children)]]),
        parameters |->
           Own([i \in 1..Len(pars) |->
                  [name |-> GetAttr(pars[i], "name", <<>>),
                   rec |-> ParseNumber(pars[i], PyFloat(0))]]),
        time_step |-> IF field("physiboss_time_step") = <<>> THEN DefaultTimeStep
                      ELSE ParseNumber(field("physiboss_time_step")[1], DefaultTimeStep),
        scaling |-> IF field("physiboss_scaling") = <<>> THEN DefaultScaling
                    ELSE ParseNumber(field("physiboss_scaling")[1], DefaultScaling),
        start_time |-> IF field("physiboss_start_time") = <<>> THEN DefaultStartTime
                       ELSE ParseNumber(field("physiboss_start_time")[1], DefaultStartTime)]

\* deserialize(xmlElement | absent): an absent element is a no-op; a present
\* one replaces the module's state by what the element holds
physiboss_load_from_xml(x) ==
    /\ IF x = None
       THEN UNCHANGED <<enabled, settings>>
       ELSE /\ enabled' = (Lower(GetAttr(x[1], "enabled", S("false"))) = S("true"))
            /\ settings' = <<ParseSettings(x[1])>>
    /\ last' = Call("physiboss.load_from_xml", x, "ok")
    /\ UNCHANGED <<rules, rulesets, file, parent, caller>>

(***************************************************************************)
(* The caller's inputs to the XML and PhysiBoSS operations.                *)
(***************************************************************************)
RulesCsv == <<W("rules"), Ext(".csv")>>
Rules1Csv == <<W("rules"), Suffix(1), Ext(".csv")>>
Cfg == S("./cfg")

RulesetNames == {S("r1"), S("r2")}
\* the folder and enabled arguments the caller registers rulesets with
Registrations ==
    {[folder |-> Cfg, enabled |-> TRUE],
     [folder |-> Cfg, enabled |-> FALSE],
     [folder |-> <<SP, W("./cfg")>>, enabled |-> TRUE]}

TextElem(tag, s) == Elem(tag, <<>>, Some(s), <<>>)
EmptyElem(tag) == Elem(tag, <<>>, None, <<>>)

Attrs(protocol, version, format, en) ==
    <<[name |-> "protocol", value |-> protocol], [name |-> "version", value |-> version],
      [name |-> "format", value |-> format], [name |-> "enabled", value |-> en]>>

\* <ruleset> elements a document may hold
FullRs == Elem("ruleset", Attrs(CBHG, V30, Csv, S("true")), None,
               <<TextElem("folder", Cfg), TextElem("filename", RulesCsv)>>)
OddRs == Elem("ruleset", Attrs(S("XYZ"), <<DecLit(20)>>, S("tsv"), S("TRUE")), None,
              <<TextElem("folder", <<SP>>),
                TextElem("filename", <<SP, W("rules"), Suffix(1), Ext(".csv"), SP>>)>>)
BareRs == Elem("ruleset", <<>>, None, <<EmptyElem("folder"), EmptyElem("filename")>>)
FolderOnlyRs == Elem("ruleset", Attrs(CBHG, V30, Csv, S("true")), None,
                     <<TextElem("folder", Cfg)>>)
FilenameOnlyRs == Elem("ruleset", Attrs(CBHG, V30, Csv, S("true")), None,
                       <<TextElem("filename", RulesCsv)>>)
ChildlessRs == Elem("ruleset", Attrs(CBHG, V30, Csv, S("true")), None, <<>>)

RulesetElems == {FullRs, OddRs, BareRs, FolderOnlyRs, FilenameOnlyRs, ChildlessRs}

RECURSIVE SeqsUpTo(_, _)
SeqsUpTo(X, n) ==
    IF n = 0 THEN {<<>>}
    ELSE LET shorter == SeqsUpTo(X, n - 1) IN
         shorter \cup {Append(t, x) : t \in {u \in shorter : Len(u) = n - 1}, x \in X}

\* the ruleset lists of the documents read: up to MaxElems elements that have
\* both children (the ones whose keys can collide), or fewer of any shape
RulesetLists ==
    SeqsUpTo({FullRs, OddRs, BareRs}, MaxElems) \cup SeqsUpTo(RulesetElems, MaxElems - 1)

\* <cell_rules> documents: with a <rulesets> child (followed by <settings>), or without
CellRulesDocs ==
    {Elem("cell_rules", <<>>, None,
          <<Elem("rulesets", <<>>, None, es), EmptyElem("settings")>>) :
       es \in RulesetLists}
    \cup {Elem("cell_rules", <<>>, None, <<EmptyElem("settings")>>)}

\* the <cell_rules> elements found under the parent that add_to_xml wrote to
WrittenDocs == {parent[i] : i \in {j \in 1..Len(parent) : parent[j].tag = "cell_rules"}}

\* the <physiboss> elements found under the parent that add_to_xml wrote to
WrittenBossDocs == {parent[i] : i \in {j \in 1..Len(parent) : parent[j].tag = "physiboss"}}

\* the caller starts a new document, with or without an earlier section in it
NewParent(p) ==
    /\ parent' = p
    /\ last' = Returned("env")
    /\ UNCHANGED <<rules, rulesets, file, bossVars>>

Parents == {<<>>, <<EmptyElem("domain")>>}

Fragments(p) == Cardinality({i \in 1..Len(p) : p[i].tag \in {"cell_rules", "physiboss"}})

ScenarioDicts ==
    [initial_values |-> <<[name |-> S("A"), rec |-> TRUE]>>,
     mutations |-> <<[name |-> S("lineX"),
                      rec |-> <<[name |-> S("B"), rec |-> FALSE]>>]>>,
     parameters |-> <<[name |-> S("k"), rec |-> PyFloat(25)]>>]
EmptyDicts == [initial_values |-> <<>>, mutations |-> <<>>, parameters |-> <<>>]

CallerDicts ==
    {[initial_values |-> IF i THEN ScenarioDicts.initial_values ELSE <<>>,
      mutations |-> IF m THEN ScenarioDicts.mutations ELSE <<>>,
      parameters |-> IF q THEN ScenarioDicts.parameters ELSE <<>>] :
       i \in BOOLEAN, m \in BOOLEAN, q \in BOOLEAN}

ModelFiles == {<<W("m"), Ext(".bnd")>>, <<W("boolean_model"), Ext(".bnd")>>}
MapArgs == {None, Some("caller")}
Numbers == {PyFloat(60), PyInt(0), PyFloat(-10)}
Nodes == {S("A")}
CellLines == {S("lineX")}
MutationNodes == {S("B")}
ParameterNames == {S("k")}
ParameterValues == {PyFloat(25)}
\* the initial values set before the module is written
BossXmlValues == {[name |-> S("A"), rec |-> TRUE], [name |-> S("B"), rec |-> FALSE]}

(***************************************************************************)
(* Specifications.                                                         *)
(***************************************************************************)
Init ==
    /\ rules = <<>>
    /\ rulesets = <<>>
    /\ file = NoFile
    /\ parent = <<>>
    /\ enabled = FALSE
    /\ settings = <<>>
    /\ caller = EmptyDicts
    /\ last = Returned("__init__")

\* as Init, with any of the dicts the caller has prepared
InitBoss ==
    /\ rules = <<>>
    /\ rulesets = <<>>
    /\ file = NoFile
    /\ parent = <<>>
    /\ enabled = FALSE
    /\ settings = <<>>
    /\ caller \in CallerDicts
    /\ last = Returned("__init__")

\* the rule list alone
NextRules ==
    \/ \E ct \in CellTypes, d \in Directions, atd \in ApplyToDead :
          add_rule(ct, Oxygen, d, Apoptosis, SatValue, HalfMax, HillPower, atd)
    \/ clear_rules

SpecRules == Init /\ [][NextRules]_vars

\* the rule list and its CSV file
NextCsv ==
    \/ \E ct \in CellTypes, d \in {S("increases"), S("Increases")} :
          add_rule(ct, Oxygen, d, Apoptosis, SatValue, HalfMax, HillPower, PyInt(1))
    \/ load_rules_from_csv
    \/ save_rules_to_csv
    \/ clear_rules
    \/ CreateFile
    \/ \E row \in FileRows : AppendRow(row)
    \/ DeleteFile

SpecCsv == Init /\ [][NextCsv]_vars

\* the registry of the model holds at most MaxSets rulesets
CanRegister(name) == name \in Keys(rulesets) \/ Len(rulesets) < MaxSets

\* the XML side of the rule store, reading documents
NextXmlIn ==
    \/ \E x \in {None} \cup {Some(d) : d \in CellRulesDocs} : load_from_xml(x)
    \/ \E name \in RulesetNames :
          CanRegister(name) /\ add_ruleset(name, Cfg, RulesCsv, TRUE)
    \/ clear_rulesets
    \/ /\ rules = <<>>
       /\ add_rule(S("tumor"), Oxygen, S("increases"), Apoptosis, SatValue, HalfMax,
                   HillPower, PyInt(0))

SpecXmlIn == Init /\ [][NextXmlIn]_vars

\* the XML side of the rule store, writing documents and reading them back
NextXmlOut ==
    \/ \E name \in RulesetNames, r \in Registrations :
          CanRegister(name) /\ add_ruleset(name, r.folder, RulesCsv, r.enabled)
    \/ clear_rulesets
    \/ Fragments(parent) < MaxFragments /\ cell_rules_add_to_xml
    \/ \E x \in {None} \cup {Some(d) : d \in WrittenDocs} : load_from_xml(x)
    \/ \E p \in Parents : NewParent(p)

SpecXmlOut == Init /\ [][NextXmlOut]_vars

NextBoss ==
    \/ \E f \in ModelFiles, iv \in MapArgs, mut \in MapArgs, par \in MapArgs :
          enable_physiboss(f, iv, mut, par)
    \/ \E v \in Numbers : set_time_step(v)
    \/ \E v \in Numbers : set_scaling(v)
    \/ \E node \in Nodes, value \in BOOLEAN : add_initial_value(node, value)
    \/ \E line \in CellLines, node \in MutationNodes, value \in BOOLEAN :
          add_mutation(line, node, value)
    \/ \E name \in ParameterNames, value \in ParameterValues : add_parameter(name, value)

SpecBoss == InitBoss /\ [][NextBoss]_vars

MBnd == <<W("m"), Ext(".bnd")>>

\* both stores and a caller that changes what the accessors returned
NextCopy ==
    \/ add_rule(S("tumor"), Oxygen, S("increases"), Apoptosis, SatValue, HalfMax,
                HillPower, PyInt(0))
    \/ clear_rules
    \/ CanRegister(S("r1")) /\ add_ruleset(S("r1"), Cfg, RulesCsv, TRUE)
    \/ enable_physiboss(MBnd, None, None, None)
    \/ add_initial_value(S("A"), TRUE)
    \/ \E i \in 1..MaxRules : held_rule_set_field(i, "direction", S("sideways"))
    \/ held_rules_edit_list
    \/ held_ruleset_set_field(S("r1"), "enabled", FALSE)
    \/ held_rulesets_edit_dict
    \/ \E node \in BossXmlValues : held_settings_write_map(node.name, node.rec)
    \/ held_settings_edit_dict

SpecCopy == Init /\ [][NextCopy]_vars

\* the PhysiBoSS module and a caller that keeps the dicts it passed in
NextOwn ==
    \/ \E iv \in MapArgs, mut \in MapArgs, par \in MapArgs :
          enable_physiboss(MBnd, iv, mut, par)
    \/ add_initial_value(S("B"), FALSE)
    \/ add_mutation(S("lineX"), S("B"), TRUE)
    \/ add_parameter(S("k"), PyFloat(30))
    \/ \E value \in BOOLEAN : caller_writes(S("A"), value)

SpecOwn == InitBoss /\ [][NextOwn]_vars

\* both modules written to one document of at most MaxChildren children
NextSer ==
    \/ add_rule(S("tumor"), Oxygen, S("increases"), Apoptosis, SatValue, HalfMax,
                HillPower, PyInt(0))
    \/ CanRegister(S("r1")) /\ add_ruleset(S("r1"), Cfg, RulesCsv, TRUE)
    \/ enable_physiboss(MBnd, None, None, None)
    \/ add_initial_value(S("A"), TRUE)
    \/ Len(parent) < MaxChildren /\ cell_rules_add_to_xml
    \/ Len(parent) < MaxChildren /\ physiboss_add_to_xml
    \/ \E p \in Parents : NewParent(p)

SpecSer == Init /\ [][NextSer]_vars

\* the PhysiBoSS module written to a document
NextBossXml ==
    \/ enable_physiboss(MBnd, None, None, None)
    \/ \E node \in BossXmlValues : add_initial_value(node.name, node.rec)
    \/ add_mutation(S("lineX"), S("B"), FALSE)
    \/ add_parameter(S("k"), PyFloat(25))
    \/ Fragments(parent) < MaxFragments /\ physiboss_add_to_xml
    \/ \E x \in {None} \cup {Some(d) : d \in WrittenBossDocs} : physiboss_load_from_xml(x)
    \/ \E p \in Parents : NewParent(p)

SpecBossXml == Init /\ [][NextBossXml]_vars

(***************************************************************************)
(* Properties.  The spec's InvalidArgument, FormatError and InvalidState   *)
(* are Python's ValueError; NotFound is FileNotFoundError.                 *)
(***************************************************************************)
\* two rules agree on all 8 fields, numeric fields compared by value
SameRule(a, b) ==
    /\ a.cell_type = b.cell_type
    /\ a.signal = b.signal
    /\ a.direction = b.direction
    /\ a.behavior = b.behavior
    /\ NumEq(a.saturation_value, b.saturation_value)
    /\ NumEq(a.half_max, b.half_max)
    /\ NumEq(a.hill_power, b.hill_power)
    /\ NumEq(a.apply_to_dead, b.apply_to_dead)

SameRules(rs, qs) == Len(rs) = Len(qs) /\ \A i \in 1..Len(rs) : SameRule(rs[i], qs[i])

\* the rules add_rule accepts, among the caller's inputs
AcceptedRules ==
    {MkRule(ct, Oxygen, d, Apoptosis, SatValue, HalfMax, HillPower, atd) :
       ct \in CellTypes, d \in {S("increases"), S("decreases")},
       atd \in {PyInt(0), PyInt(1)}}

AcceptedLists == SeqsUpTo(AcceptedRules, MaxRules) \ {<<>>}

\* C1 (as claimed): a rule list of accepted rules that was exported and is
\* imported into a store with an empty rule list comes back with the same
\* length and the same 8 field values, rule by rule, whitespace included.
C1_TableRoundTrip ==
    [][(last'.op = "load_rules_from_csv" /\ rules = <<>> /\ file.exists)
         => \A R \in AcceptedLists :
               file.rows = SaveRows(R)
                  => last'.outcome = "ok" /\ SameRules(rules', R)]_vars

\* C2 (as claimed): a load_rules_from_csv call that raises leaves the rule
\* list as it was before the call.
C2_ImportAllOrNothing ==
    [][(last'.op = "load_rules_from_csv" /\ last'.outcome # "ok")
         => rules' = rules]_vars

\* C3: add_rule raises ValueError exactly when direction is not "increases" or
\* "decreases" or apply_to_dead is not 0 or 1, and then the rule list is
\* unchanged; otherwise the list afterwards is the list before with one rule
\* appended that holds the 8 supplied values.
C3_AddRule ==
    [][last'.op = "add_rule"
         => LET a == last'.args IN
            IF /\ a.direction \in {S("increases"), S("decreases")}
               /\ a.apply_to_dead \in {PyInt(0), PyInt(1)}
            THEN /\ last'.outcome = "ok"
                 /\ Len(rules') = Len(rules) + 1
                 /\ SubSeq(rules', 1, Len(rules)) = rules
                 /\ rules'[Len(rules')] = a
            ELSE /\ last'.outcome = "ValueError"
                 /\ rules' = rules]_vars

C3_Witness ==
    /\ last.op = "add_rule"
    /\ last.outcome = "ok"
    /\ Len(rules) = 2
    /\ rules[2] = last.args
    /\ rules[1] # rules[2]

\* the <ruleset> element e carries the record rec
CarriesRecord(e, rec) ==
    /\ e.tag = "ruleset"
    /\ {e.attrib[i].name : i \in 1..Len(e.attrib)}
          = {"protocol", "version", "format", "enabled"}
    /\ Len(e.attrib) = 4
    /\ GetAttr(e, "protocol", None) = rec.protocol
    /\ GetAttr(e, "version", None) = rec.version
    /\ GetAttr(e, "format", None) = rec.format
    /\ GetAttr(e, "enabled", None) = (IF rec.enabled THEN S("true") ELSE S("false"))
    /\ Len(e.children) = 2
    /\ e.children[1] = TextElem("folder", rec.folder)
    /\ e.children[2] = TextElem("filename", rec.filename)

\* C4: add_to_xml appends exactly one cell_rules element, whose children are
\* one rulesets element and one empty settings element; rulesets has one
\* ruleset child per registered record, in registration order, or the single
\* default disabled ruleset when nothing is registered.
C4_SerializeShape ==
    [][last'.op = "cell_rules.add_to_xml"
         => /\ Len(parent') = Len(parent) + 1
            /\ SubSeq(parent', 1, Len(parent)) = parent
            /\ LET cr == parent'[Len(parent')] IN
               /\ cr.tag = "cell_rules"
               /\ cr.attrib = <<>> /\ cr.text = None
               /\ Len(cr.children) = 2
               /\ cr.children[2] = EmptyElem("settings")
               /\ LET rs == cr.children[1] IN
                  /\ rs.tag = "rulesets" /\ rs.attrib = <<>> /\ rs.text = None
                  /\ IF rulesets # <<>>
                     THEN /\ Len(rs.children) = Len(rulesets)
                          /\ \A i \in 1..Len(rulesets) :
                                CarriesRecord(rs.children[i], rulesets[i].rec)
                     ELSE /\ Len(rs.children) = 1
                          /\ CarriesRecord(rs.children[1],
                                MkRuleset(S("./config"), <<W("cell_rules"), Ext(".csv")>>,
                                          FALSE, S("CBHG"), <<DecLit(30)>>, S("csv")))]_vars

C4_Witness ==
    /\ last.op = "cell_rules.add_to_xml"
    /\ Len(rulesets) = 2
    /\ rulesets[1].rec.enabled # rulesets[2].rec.enabled
    /\ Len(parent) = 2
    /\ Len(parent[2].children[1].children) = 2

\* folder and filename are non-empty and free of surrounding whitespace
CleanRecord(rec) ==
    /\ rec.folder # <<>> /\ Strip(rec.folder) = rec.folder
    /\ rec.filename # <<>> /\ Strip(rec.filename) = rec.filename

\* the registries a caller can build with add_ruleset from its inputs
BuiltRegistries ==
    {reg \in SeqsUpTo({[name |-> name,
                         rec |-> MkRuleset(r.folder, RulesCsv, r.enabled, CBHG, V30, Csv)] :
                          name \in RulesetNames, r \in Registrations},
                      MaxSets) :
        Cardinality(Keys(reg)) = Len(reg)}

\* C5: load_from_xml of the cell_rules element that add_to_xml wrote for a
\* non-empty registry S with clean folders and filenames gives, whatever was
\* registered before, as many records as S holds, equal to S's in order, and
\* serializing the reloaded registry gives the same element again.
C5_XmlRoundTrip ==
    (last.op = "load_from_xml" /\ last.args # None)
       => \A S0 \in BuiltRegistries :
             (/\ S0 # <<>>
              /\ \A i \in 1..Len(S0) : CleanRecord(S0[i].rec)
              /\ last.args[1] = CellRulesElem(S0))
             => /\ Len(rulesets) = Len(S0)
                /\ \A i \in 1..Len(S0) : rulesets[i].rec = S0[i].rec
                /\ CellRulesElem(rulesets) = last.args[1]

C5_Witness ==
    /\ last.op = "load_from_xml"
    /\ last.args # None
    /\ Len(rulesets) = 2
    /\ rulesets[1].name = S("rules")
    /\ rulesets[2].name = <<W("rules"), Suffix(1)>>
    /\ rulesets[1].rec.enabled /\ ~rulesets[2].rec.enabled
    /\ \E i \in 1..Len(parent) : parent[i] = CellRulesElem(rulesets)

\* the <ruleset> children of the document's <rulesets> child
RulesetChildren(doc) ==
    LET r == Find(doc, "rulesets") IN
    IF r = None THEN <<>> ELSE FindAll(r[1], "ruleset")

HasChild(e, tag) == \E i \in 1..Len(e.children) : e.children[i].tag = tag

RECURSIVE Keep(_, _)
Keep(es, both) ==
    IF es = <<>> THEN <<>>
    ELSE LET e == Head(es)
             kept == IF both THEN HasChild(e, "folder") /\ HasChild(e, "filename")
                     ELSE HasChild(e, "folder") \/ HasChild(e, "filename")
         IN (IF kept THEN <<e>> ELSE <<>>) \o Keep(Tail(es), both)

\* the <ruleset> children that have both a <folder> and a <filename> child
WithBoth(doc) == Keep(RulesetChildren(doc), TRUE)
\* the <ruleset> children that have a <folder> or a <filename> child
WithEither(doc) == Keep(RulesetChildren(doc), FALSE)

EarlierKeys(reg, i) == {reg[j].name : j \in 1..(i - 1)}

\* the key the i-th record must have: its filename stem if no earlier record
\* of the pass has it, else the stem with the smallest unused suffix
ExpectedKey(reg, i) ==
    LET stem == SplitExtBase(reg[i].rec.filename) IN
    IF stem \notin EarlierKeys(reg, i) THEN stem
    ELSE LET n == CHOOSE k \in 1..i :
                     /\ Append(stem, Suffix(k)) \notin EarlierKeys(reg, i)
                     /\ \A m \in 1..(k - 1) : Append(stem, Suffix(m)) \in EarlierKeys(reg, i)
         IN Append(stem, Suffix(n))

\* C6: after a load_from_xml pass every accepted ruleset element has its own
\* key: the registry holds as many records as elements were accepted, the
\* keys are distinct, and each key is the filename stem or, when taken, the
\* stem with the smallest unused numeric suffix.
C6_UniqueKeys ==
    (last.op = "load_from_xml" /\ last.args # None)
       => /\ Len(rulesets) = Len(WithBoth(last.args[1]))
          /\ Cardinality(Keys(rulesets)) = Len(rulesets)
          /\ \A i \in 1..Len(rulesets) : rulesets[i].name = ExpectedKey(rulesets, i)

C6_Witness ==
    /\ last.op = "load_from_xml"
    /\ last.args # None
    /\ Len(rulesets) = 3
    /\ rulesets[1].name = S("rules")
    /\ rulesets[2].name = <<W("rules"), Suffix(1)>>
    /\ rulesets[3].name = <<W("rules"), Suffix(1), Suffix(1)>>
    /\ rulesets[3].rec.filename = Rules1Csv

\* the record was read from the <ruleset> element e
DerivedFrom(rec, e) ==
    /\ HasChild(e, "folder") /\ HasChild(e, "filename")
    /\ rec.protocol = (IF HasAttr(e, "protocol") THEN GetAttr(e, "protocol", None) ELSE S("CBHG"))
    /\ rec.version = (IF HasAttr(e, "version") THEN GetAttr(e, "version", None) ELSE <<DecLit(30)>>)
    /\ rec.format = (IF HasAttr(e, "format") THEN GetAttr(e, "format", None) ELSE S("csv"))
    /\ rec.enabled = (HasAttr(e, "enabled") /\ Lower(GetAttr(e, "enabled", None)) = S("true"))
    /\ LET fo == Find(e, "folder")[1].text
           fi == Find(e, "filename")[1].text
       IN /\ rec.folder = (IF fo = None \/ fo = Some(<<>>) THEN S("./config") ELSE Strip(fo[1]))
          /\ rec.filename = (IF fi = None \/ fi = Some(<<>>)
                             THEN <<W("cell_rules"), Ext(".csv")>> ELSE Strip(fi[1]))

\* C7: load_from_xml(None) returns and changes neither the registry nor the
\* rule list; with an element it leaves the rule list alone and the registry
\* afterwards holds exactly the records read from that element's accepted
\* ruleset children (none when there is no rulesets child), under keys made
\* from their filenames, whatever was registered before.
C7_ReplacesRegistry ==
    /\ [][last'.op = "load_from_xml"
            => /\ last'.outcome = "ok"
               /\ rules' = rules
               /\ last'.args = None => rulesets' = rulesets]_vars
    /\ []((last.op = "load_from_xml" /\ last.args # None)
            => LET acc == WithBoth(last.args[1]) IN
               /\ Len(rulesets) = Len(acc)
               /\ \A i \in 1..Len(acc) :
                     /\ DerivedFrom(rulesets[i].rec, acc[i])
                     /\ LET stem == SplitExtBase(rulesets[i].rec.filename) IN
                        SubSeq(rulesets[i].name, 1, Len(stem)) = stem)

C7_Witness ==
    /\ last.op = "load_from_xml"
    /\ last.args # None
    /\ Find(last.args[1], "rulesets") = None
    /\ rulesets = <<>>
    /\ rules # <<>>

\* C8 (as claimed): a ruleset element is skipped only when it has neither a
\* folder nor a filename child; one that has either is registered.
C8_SkippedOnlyWithoutBoth ==
    (last.op = "load_from_xml" /\ last.args # None)
       => Len(rulesets) = Len(WithEither(last.args[1]))

\* C8 (amended): a ruleset element is registered exactly when it has both a
\* folder and a filename child; the record holds the attributes, defaulted to
\* CBHG, 3.0, csv and false when absent, and the stripped folder and
\* filename texts, defaulted to ./config and cell_rules.csv when empty.
C8_RegisteredWithBoth ==
    (last.op = "load_from_xml" /\ last.args # None)
       => LET acc == WithBoth(last.args[1]) IN
          /\ Len(rulesets) = Len(acc)
          /\ \A i \in 1..Len(acc) : DerivedFrom(rulesets[i].rec, acc[i])

C8_Witness ==
    /\ last.op = "load_from_xml"
    /\ last.args # None
    /\ RulesetChildren(last.args[1]) = <<FolderOnlyRs, BareRs>>
    /\ Len(rulesets) = 1
    /\ rulesets[1].rec = MkRuleset(S("./config"), <<W("cell_rules"), Ext(".csv")>>,
                                   FALSE, S("CBHG"), <<DecLit(30)>>, S("csv"))

Mutators == {"set_time_step", "set_scaling", "add_initial_value", "add_mutation",
             "add_parameter"}

\* C9: the module starts disabled; only enable_physiboss changes the flag,
\* and only to TRUE; once enabled it stays enabled; while disabled, every
\* mutator raises ValueError and leaves the flag FALSE and the settings empty.
C9_StateMachine ==
    /\ ~enabled /\ settings = <<>>
    /\ [][/\ enabled => enabled'
          /\ enabled' # enabled => last'.op = "enable_physiboss"
          /\ last'.op = "enable_physiboss" => enabled'
          /\ (~enabled /\ last'.op \in Mutators)
                => /\ last'.outcome = "ValueError"
                   /\ ~enabled'
                   /\ settings = <<>> /\ settings' = <<>>
                   /\ caller' = caller]_vars

C9_Witness ==
    /\ ~enabled
    /\ settings = <<>>
    /\ last.op = "add_mutation"
    /\ last.outcome = "ValueError"

\* C10: right after enable_physiboss the settings hold the supplied model
\* file, time_step 12.0, scaling 10.0, start_time 0.0, and each map equals
\* the supplied map, or is empty when none was supplied: nothing else of the
\* state before the call is left.
C10_EnableOverwrites ==
    last.op = "enable_physiboss"
       => /\ enabled
          /\ last.outcome = "ok"
          /\ Len(settings) = 1
          /\ settings[1].model_file = last.args.model_file
          /\ settings[1].time_step = PyFloat(120)
          /\ settings[1].scaling = PyFloat(100)
          /\ settings[1].start_time = PyFloat(0)
          /\ \A kind \in MapKinds :
                CurrentMap(kind) = (IF last.args[kind] = None THEN <<>> ELSE caller[kind])

C10_Witness ==
    /\ last.op = "enable_physiboss"
    /\ last.args.initial_values # None
    /\ CurrentMap("initial_values") = <<[name |-> S("A"), rec |-> FALSE]>>
    /\ last.args.parameters = None
    /\ caller.parameters # <<>>
    /\ CurrentMap("parameters") = <<>>

\* s is t without its leading and trailing spaces
IsTrimOf(s, t) ==
    /\ \E i \in 1..(Len(t) + 1), j \in 0..Len(t) :
          /\ s = SubSeq(t, i, j)
          /\ \A k \in 1..(i - 1) : t[k].k = "sp"
          /\ \A k \in (j + 1)..Len(t) : t[k].k = "sp"
    /\ s # <<>> => (s[1].k # "sp" /\ s[Len(s)].k # "sp")

\* the row has a field that is not only whitespace
NonBlank(row) == \E i \in 1..Len(row) : \E k \in 1..Len(row[i]) : row[i][k].k # "sp"

NonBlankRows(rows) == SelectSeq(rows, NonBlank)

StringFields == {"cell_type", "signal", "direction", "behavior"}
FieldColumn(f) ==
    CASE f = "cell_type" -> 1 [] f = "signal" -> 2 [] f = "direction" -> 3
      [] f = "behavior" -> 4

\* C14: a load_rules_from_csv call that returns leaves the rules held before
\* in place and appends one rule per non-blank row of the file, in file
\* order, whose string fields are the row's fields without surrounding
\* whitespace; empty and all-whitespace rows add nothing.
C14_ImportAppends ==
    [][(last'.op = "load_rules_from_csv" /\ last'.outcome = "ok")
         => LET rows == NonBlankRows(file.rows) IN
            /\ Len(rules') = Len(rules) + Len(rows)
            /\ SubSeq(rules', 1, Len(rules)) = rules
            /\ \A k \in 1..Len(rows) : \A f \in StringFields :
                  IsTrimOf(rules'[Len(rules) + k][f], rows[k][FieldColumn(f)])]_vars

C14_Witness ==
    /\ last.op = "load_rules_from_csv"
    /\ last.outcome = "ok"
    /\ file.exists
    /\ file.rows = <<SpaceRow, PaddedRow>>
    /\ Len(rules) = 2
    /\ rules[1].cell_type = <<SP, W("tumor")>>
    /\ rules[2].cell_type = S("tumor")
    /\ rules[2].direction = S("decreases")

\* C15 (as claimed): every rule held has direction "increases" or "decreases"
\* and apply_to_dead 0 or 1.
C15_RulesValid ==
    \A i \in 1..Len(rules) :
       /\ rules[i].direction \in {S("increases"), S("decreases")}
       /\ rules[i].apply_to_dead.tenths \in {0, 10}

\* the tags of the children of e, in order
ChildTags(e) == [i \in 1..Len(e.children) |-> e.children[i].tag]

\* the block tags expected for the three dicts, in the order they are written
ExpectedBlocks(iv, mut, par) ==
    (IF iv # <<>> THEN <<"physiboss_initial_values">> ELSE <<>>)
    \o (IF mut # <<>> THEN <<"physiboss_mutations">> ELSE <<>>)
    \o (IF par # <<>> THEN <<"physiboss_parameters">> ELSE <<>>)

BlockSize(tag) ==
    CASE tag = "physiboss_initial_values" -> Len(CurrentMap("initial_values"))
      [] tag = "physiboss_mutations" -> Len(CurrentMap("mutations"))
      [] tag = "physiboss_parameters" -> Len(CurrentMap("parameters"))

\* C11: add_to_xml of a module that is not enabled leaves the parent as it is;
\* of an enabled module it appends one physiboss element with enabled="true"
\* whose first child is physiboss_settings (bnd file, time step with units
\* "min", scaling, start time with units "min"), followed by the blocks of
\* the non-empty dicts only, in the order initial values, mutations,
\* parameters, each with one child per key.
C11_BossSerializeShape ==
    [][last'.op = "physiboss.add_to_xml"
         => IF ~enabled THEN parent' = parent
            ELSE /\ Len(parent') = Len(parent) + 1
                 /\ SubSeq(parent', 1, Len(parent)) = parent
                 /\ LET pb == parent'[Len(parent')] IN
                    /\ pb.tag = "physiboss"
                    /\ pb.attrib = <<[name |-> "enabled", value |-> S("true")]>>
                    /\ Len(pb.children) >= 1
                    /\ pb.children[1].tag = "physiboss_settings"
                    /\ ChildTags(pb.children[1])
                          = <<"physiboss_bnd_file", "physiboss_time_step",
                              "physiboss_scaling", "physiboss_start_time">>
                    /\ pb.children[1].children[1].text = Some(settings[1].model_file)
                    /\ GetAttr(pb.children[1].children[2], "units", None) = S("min")
                    /\ ~HasAttr(pb.children[1].children[3], "units")
                    /\ GetAttr(pb.children[1].children[4], "units", None) = S("min")
                    /\ Tail(ChildTags(pb))
                          = ExpectedBlocks(CurrentMap("initial_values"),
                                           CurrentMap("mutations"),
                                           CurrentMap("parameters"))
                    /\ \A i \in 2..Len(pb.children) :
                          Len(pb.children[i].children) = BlockSize(pb.children[i].tag)]_vars

C11_Witness ==
    /\ last.op = "physiboss.add_to_xml"
    /\ enabled
    /\ Len(CurrentMap("initial_values")) = 2
    /\ CurrentMap("mutations") = <<>>
    /\ CurrentMap("parameters") # <<>>
    /\ Len(parent) = 2
    /\ ChildTags(parent[2])
          = <<"physiboss_settings", "physiboss_initial_values", "physiboss_parameters">>

\* the dicts a caller can have built before the module is written
BuiltInitialValues ==
    {d \in SeqsUpTo(BossXmlValues, 2) : Cardinality(Keys(d)) = Len(d)}
BuiltMutations ==
    {<<>>, <<[name |-> S("lineX"), rec |-> <<[name |-> S("B"), rec |-> FALSE]>>]>>}
BuiltParameters == {<<>>, <<[name |-> S("k"), rec |-> PyFloat(25)]>>}

\* two name -> number dicts hold the same keys in the same order with equal values
SameParameters(a, b) ==
    /\ Len(a) = Len(b)
    /\ \A i \in 1..Len(a) : a[i].name = b[i].name /\ NumEq(a[i].rec, b[i].rec)

\* C12: deserialize of the physiboss element that add_to_xml wrote for an
\* enabled module holding the dicts iv, mut and par leaves the module
\* enabled with initial_values, mutations and parameters equal to iv, mut and
\* par; deserialize of an absent element returns and changes nothing.
C12_BossRoundTrip ==
    /\ [][last'.op = "physiboss.load_from_xml"
            => /\ last'.outcome = "ok"
               /\ last'.args = None => (enabled' = enabled /\ settings' = settings)]_vars
    /\ []((last.op = "physiboss.load_from_xml" /\ last.args # None)
            => \A iv \in BuiltInitialValues, mut \in BuiltMutations,
                  par \in BuiltParameters, st \in {EnableSettings(MBnd, None, None, None)} :
                  last.args[1] = PhysibossElem(st, iv, mut, par)
                     => /\ enabled
                        /\ CurrentMap("initial_values") = iv
                        /\ CurrentMap("mutations") = mut
                        /\ SameParameters(CurrentMap("parameters"), par))

C12_Witness ==
    /\ last.op = "physiboss.load_from_xml"
    /\ last.args # None
    /\ enabled
    /\ CurrentMap("initial_values") = <<[name |-> S("A"), rec |-> TRUE]>>
    /\ CurrentMap("mutations")
          = <<[name |-> S("lineX"), rec |-> <<[name |-> S("B"), rec |-> FALSE]>>]>>
    /\ CurrentMap("parameters") = <<[name |-> S("k"), rec |-> PyFloat(25)]>>
    /\ last.args[1] \in WrittenBossDocs

\* what the stores return and serialize
StoreView ==
    [rules |-> rules, rulesets |-> rulesets, enabled |-> enabled,
     settings |-> IF settings = <<>> THEN <<>>
                  ELSE <<[settings[1] EXCEPT !.initial_values = CurrentMap("initial_values"),
                                             !.mutations = CurrentMap("mutations"),
                                             !.parameters = CurrentMap("parameters")]>>,
     cell_rules_xml |-> CellRulesElem(rulesets),
     physiboss_xml |-> PhysibossAddToXml(<<>>)]

\* C13 (as claimed): get_settings() is empty while the module is not
\* enabled, and no change a caller makes to a value an accessor returned, to
\* the container or to a record or dict in it, changes what the stores
\* return or serialize.
C13_DefensiveCopies ==
    /\ [](~enabled => GetSettings = <<>>)
    /\ [][last'.op = "caller.mutate" => StoreView' = StoreView]_vars

SerializeOps == {"cell_rules.add_to_xml", "physiboss.add_to_xml"}

\* C16: add_to_xml of either module leaves the rule list, the registry, the
\* enabled flag and the settings as they were and keeps the children the
\* parent already has, in place; the rule store appends one cell_rules
\* element after them, the PhysiBoSS module one physiboss element when it is
\* enabled and nothing otherwise; a second call right after the first
\* appends an element equal to the one the first appended.
C16_SerializeAppendOnly ==
    [][last'.op \in SerializeOps
         => /\ rules' = rules /\ rulesets' = rulesets
            /\ enabled' = enabled /\ settings' = settings /\ caller' = caller
            /\ SubSeq(parent', 1, Len(parent)) = parent
            /\ Len(parent') = Len(parent)
                  + (IF last'.op = "physiboss.add_to_xml" /\ ~enabled THEN 0 ELSE 1)
            /\ Len(parent') > Len(parent)
                  => /\ parent'[Len(parent')].tag
                          = (IF last'.op = "cell_rules.add_to_xml"
                             THEN "cell_rules" ELSE "physiboss")
                     /\ last.op = last'.op => parent'[Len(parent')] = parent[Len(parent)]]_vars

C16_Witness ==
    /\ last.op = "cell_rules.add_to_xml"
    /\ enabled
    /\ rules # <<>>
    /\ rulesets # <<>>
    /\ Len(parent) = 2
    /\ parent[2].tag = "cell_rules"
    /\ parent[1] = parent[2]

MapWriters == {"add_initial_value", "add_mutation", "add_parameter"}

\* the settings as get_settings() shows them, and what add_to_xml writes
BossView ==
    [enabled |-> enabled,
     maps |-> [kind \in MapKinds |-> CurrentMap(kind)],
     xml |-> PhysibossAddToXml(<<>>)]

\* C17 (as claimed): add_initial_value, add_mutation and add_parameter leave
\* the dicts the caller passed to enable_physiboss as they were, and a change
\* the caller makes to a dict of its own changes neither the module's
\* settings nor what the module serializes.
C17_ExclusiveOwnership ==
    [][/\ last'.op \in MapWriters => caller' = caller
       /\ last'.op = "caller.write" => BossView' = BossView]_vars

====
